---- MODULE Spec2Model ----
(***************************************************************************)
(* Model of scripts/dplace_to_cldf.py: the column-spec builder             *)
(* (Converter._itercols / Converter.__init__), the five registered         *)
(* converters, and the driver main().                                      *)
(*                                                                         *)
(* Python strings that are split or unpacked are modelled as sequences of  *)
(* one-character strings, so that str.split and tuple-unpacking of a       *)
(* string are computed, not assumed.  Names (field names, column names,    *)
(* urls, datatype tags) are opaque strings.                                *)
(***************************************************************************)
EXTENDS Integers, Sequences, FiniteSets, TLC

\* ------------------------------------------------------------------ bounds
\* longest field list handed to the column-spec builder
MaxFields == 2
\* how often a converter is constructed over the same class-level rule table
MaxBuilds == 3
\* datasets the repository yields
MaxDatasets == 2
\* societies per dataset
MaxRecords == 1
\* observations per dataset
MaxObs == 2

\* ----------------------------------------------------------- string values
COMMA_SP == <<",", " ">>
SEMI_SP == <<";", " ">>

\* x starts with the non-empty sequence p
HasPrefix(x, p) == Len(x) >= Len(p) /\ SubSeq(x, 1, Len(p)) = p

RECURSIVE splitFrom(_, _, _)
splitFrom(x, sep, cur) ==
    IF x = <<>> THEN <<cur>>
    ELSE IF HasPrefix(x, sep)
         THEN <<cur>> \o splitFrom(SubSeq(x, Len(sep) + 1, Len(x)), sep, <<>>)
         ELSE splitFrom(Tail(x), sep, cur \o <<Head(x)>>)

\* Python's x.split(sep) for a non-empty sep: the list of the pieces
split(x, sep) == splitFrom(x, sep, <<>>)

\* ------------------------------------------------------------ rule tables
\* a key that a dict does not hold
NoKey == "<no key>"

NoSeparator == [kind |-> "none", sep |-> <<>>, split |-> FALSE]
\* collections.namedtuple('Separator', ['sep', 'split'])
Separator(s, sp) == [kind |-> "Separator", sep |-> s, split |-> sp]
\* a plain string stored under 'separator'
SepString(s) == [kind |-> "str", sep |-> s, split |-> FALSE]

\* the shapes a rule of a _convert table takes
NotInConvert == [kind |-> "absent", name |-> NoKey, separator |-> NoSeparator, datatype |-> NoKey]
RuleNone == [kind |-> "None", name |-> NoKey, separator |-> NoSeparator, datatype |-> NoKey]
RuleStr(target) == [kind |-> "str", name |-> target, separator |-> NoSeparator, datatype |-> NoKey]
RuleMap(n, s, dt) == [kind |-> "map", name |-> n, separator |-> s, datatype |-> dt]

\* an attr field: its name and whether its declared converter is float
Field(n, isFloat) == [name |-> n, convert |-> IF isFloat THEN "float" ELSE "other"]

\* ------------------------------------------------- Converter._itercols
\* sep, split = args['separator']: a Separator unpacks to its two members, a
\* string of two characters to its two characters (the second, a non-empty
\* string, is truthy), any other string raises ValueError
Unpack(s) ==
    IF s.kind = "Separator" THEN [ok |-> TRUE, sep |-> s.sep, split |-> s.split]
    ELSE IF Len(s.sep) = 2
         THEN [ok |-> TRUE, sep |-> <<s.sep[1]>>, split |-> TRUE]
         ELSE [ok |-> FALSE, sep |-> <<>>, split |-> FALSE]

\* faulty variant: the declared converter is not looked at
InferDatatype_string(f) == "string"

\* the datatype inferred for a column without one
InferDatatype(f) == IF f.convert = "float" THEN "float" ELSE "string"

\* One pass of the loop body for field f.  convert is the rule table (the
\* class attribute, edited in place), cell the generator's local variable sep.
\* Gives what is yielded (cols: zero or one column), the table and the cell
\* afterwards, and whether ValueError was raised.
itercolsBody(f, convert, cell) ==
    LET rule == convert[f.name]
        target == IF rule.kind = "map"
                  THEN (IF rule.name = NoKey THEN f.name ELSE rule.name)
                  ELSE IF rule.kind = "str" THEN rule.name ELSE f.name
        \* args after the target name is settled
        args0 == IF rule.kind = "map"
                 THEN [name |-> target, separator |-> rule.separator, datatype |-> rule.datatype]
                 ELSE [name |-> target, separator |-> NoSeparator, datatype |-> NoKey]
        hasSep == args0.separator.kind # "none"
        u == Unpack(args0.separator)
        args1 == IF hasSep /\ u.ok
                 THEN [args0 EXCEPT !.separator = SepString(u.sep)]
                 ELSE args0
        args2 == IF args1.datatype = NoKey
                 THEN [args1 EXCEPT !.datatype = InferDatatype(f)]
                 ELSE args1
        transform == IF hasSep /\ u.ok /\ u.split THEN "split" ELSE "identity"
        raised == hasSep /\ ~u.ok
        \* the dict of a mapping rule is the table's own entry
        stored(a) == IF rule.kind = "map"
                     THEN [convert EXCEPT ![f.name] = RuleMap(a.name, a.separator, a.datatype)]
                     ELSE convert
    IN  IF rule.kind = "None"
        THEN [cols |-> <<>>, convert |-> convert, cell |-> cell, raised |-> FALSE]
        ELSE IF raised
        THEN [cols |-> <<>>, convert |-> stored(args0), cell |-> cell, raised |-> TRUE]
        ELSE [cols |-> <<[name |-> f.name, transform |-> transform,
                          target |-> target, args |-> args2]>>,
              convert |-> stored(args2),
              cell |-> IF hasSep THEN u.sep ELSE cell,
              raised |-> FALSE]

\* the loop over the fields from the state (convert, cell) on, cols being what
\* was yielded so far.  Each pass's result is bound as a value (r \in {...}).
RECURSIVE itercolsFrom(_, _, _, _)
itercolsFrom(fields, convert, cell, cols) ==
    IF fields = <<>>
    THEN [cols |-> cols, convert |-> convert, cell |-> cell, raised |-> FALSE]
    ELSE CHOOSE out \in
            {IF r.raised
             THEN [cols |-> cols, convert |-> r.convert, cell |-> r.cell, raised |-> TRUE]
             ELSE itercolsFrom(Tail(fields), r.convert, r.cell, cols \o r.cols) :
                r \in {itercolsBody(Head(fields), convert, cell)}} : TRUE

\* list(self._itercols(fields, convert)): the generator run to its end.  The
\* cell starts unbound (<<>>); no transform reads it before it is bound.
itercols(fields, convert) == itercolsFrom(fields, convert, <<>>, <<>>)

\* a column's transform applied at extraction time: the lambda reads the
\* generator's variable sep when it is called, i.e. the cell's final value
trans(col, cell, x) == IF col.transform = "split" THEN split(x, cell) ELSE x

Targets(columns) == {columns[i].target : i \in DOMAIN columns}

\* the index of the last column with this target: a dict comprehension keeps
\* the last value given for a key
LastWith(columns, t) ==
    CHOOSE i \in DOMAIN columns :
        /\ columns[i].target = t
        /\ \A j \in DOMAIN columns : columns[j].target = t => j <= i

\* Converter.__init__.extract
extract(columns, cell, s) ==
    [t \in Targets(columns) |->
        LET c == columns[LastWith(columns, t)] IN trans(c, cell, s[c.name])]


\* --------------------------------------------- the builder as a state machine
VARIABLES
    fields,        \* attr.fields(self._source_cls): the ordered field list
    convert,       \* cls._convert, the class-level rule table (edited in place)
    builtFrom,     \* the rule table as the latest construction found it
    columns,       \* the latest converter's columns
    cell,          \* the variable sep its transforms close over
    builds,        \* constructions so far
    status,        \* "ok", or "ValueError" once a construction raised
    record,        \* the source record last extracted
    row,           \* extract(record)
    firstColumns,  \* the first construction's columns, as they were then
    firstCell      \* and its closure variable

VARIABLES
    pc,                   \* where main() is
    ds_index,             \* datasets taken from repo.datasets so far
    source_ds,            \* the loop variable
    target_dir,           \* main's variable target_dir, a path as its components
    target_ds,            \* the StructureDataset of the current dataset
    write_kwargs,         \* the dict of row iterables
    ci,                   \* index into converters of the inner loop
    log,                  \* the calls made on target datasets, in order
    ValueTable_component, \* the class-level dict ValueTable._component
    fs,                   \* the directories that exist
    pruned                \* some ValueTable call so far dropped a foreign key

mainVars == <<pc, ds_index, source_ds, target_dir, target_ds, write_kwargs, ci,
              log, ValueTable_component, fs, pruned>>

colsVars == <<fields, convert, builtFrom, columns, cell, builds, status,
              record, row, firstColumns, firstCell>>

vars == <<colsVars, mainVars>>

FieldNames == {"f1", "f2", "f3"}
\* f2 is declared with convert=float
FieldDecl(n) == Field(n, n = "f2")

SepValues == {COMMA_SP, SEMI_SP}
a_COMMA_b == <<"a", ",", " ", "b">>
a_SEMI_b == <<"a", ";", " ", "b">>
Values == {a_COMMA_b, a_SEMI_b}

Rules ==
    {NotInConvert, RuleNone, RuleStr("t1"),
     RuleMap(NoKey, NoSeparator, NoKey), RuleMap("t2", NoSeparator, "integer")}
    \cup {RuleMap(NoKey, Separator(d, sp), NoKey) : d \in SepValues, sp \in BOOLEAN}

IsInjective(q) == \A i, j \in DOMAIN q : q[i] = q[j] => i = j
FieldLists ==
    UNION {{q \in [1..n -> FieldNames] : IsInjective(q)} : n \in 1..MaxFields}

NoRow == [t \in {} |-> <<>>]

\* the target name the rule table gives a field
TargetOf(tbl, n) ==
    IF tbl[n].kind \in {"str", "map"} /\ tbl[n].name # NoKey THEN tbl[n].name ELSE n

\* no two kept fields share a target column name
UniqueTargets(q, tbl) ==
    \A i, j \in DOMAIN q :
        (tbl[q[i]].kind # "None" /\ tbl[q[j]].kind # "None"
            /\ TargetOf(tbl, q[i]) = TargetOf(tbl, q[j])) => i = j

InitCols ==
    /\ \E q \in FieldLists :
       \E tbl \in [FieldNames -> Rules] :
          /\ \A n \in FieldNames :
                (\A i \in DOMAIN q : q[i] # n) => tbl[n] = NotInConvert
          /\ UniqueTargets(q, tbl)
          /\ fields = [i \in DOMAIN q |-> FieldDecl(q[i])]
          /\ convert = tbl
          /\ builtFrom = tbl
    /\ columns = <<>>
    /\ cell = <<>>
    /\ builds = 0
    /\ status = "ok"
    /\ record = NoRow
    /\ row = NoRow
    /\ firstColumns = <<>>
    /\ firstCell = <<>>

\* cls(): Converter.__init__ up to the construction of extract
Construct ==
    /\ status = "ok"
    /\ builds < MaxBuilds
    /\ LET r == itercols(fields, convert)
       IN  /\ convert' = r.convert
           /\ builtFrom' = convert
           /\ builds' = builds + 1
           /\ status' = IF r.raised THEN "ValueError" ELSE "ok"
           /\ columns' = IF r.raised THEN columns ELSE r.cols
           /\ cell' = IF r.raised THEN cell ELSE r.cell
           /\ firstColumns' = IF builds = 0 THEN r.cols ELSE firstColumns
           /\ firstCell' = IF builds = 0 THEN r.cell ELSE firstCell
    /\ record' = NoRow
    /\ row' = NoRow
    /\ UNCHANGED fields
    /\ UNCHANGED mainVars

\* self._extract(s) for a source record s
Extract ==
    /\ status = "ok"
    /\ builds >= 1
    /\ \E s \in [{fields[i].name : i \in DOMAIN fields} -> Values] :
          /\ record' = s
          /\ row' = extract(columns, cell, s)
    /\ UNCHANGED <<fields, convert, builtFrom, columns, cell, builds, status,
                   firstColumns, firstCell>>
    /\ UNCHANGED mainVars

NextCols == Construct \/ Extract



\* =========================================================== the five tables
TARGET == "../cldf"

TableSpec(url, conformsTo, pk, fks) ==
    [url |-> url, conformsTo |-> conformsTo, primaryKey |-> pk, foreignKeys |-> fks]
ForeignKey(col, resource, refcol) ==
    [columnReference |-> col, resource |-> resource, refColumn |-> refcol]

LanguageTable_component ==
    TableSpec("societies.csv", "http://cldf.clld.org/v1.0/terms.rdf#LanguageTable", <<"id">>, <<>>)
LangugageRelatedTable_component ==
    TableSpec("societies_mapping.csv", NoKey, <<"id">>,
              <<ForeignKey("id", "societies.csv", "id")>>)
ParameterTable_component ==
    TableSpec("variables.csv", "http://cldf.clld.org/v1.0/terms.rdf#ParameterTable", <<"id">>, <<>>)
CodeTable_component ==
    TableSpec("codes.csv", "http://cldf.clld.org/v1.0/terms.rdf#CodeTable", <<"var_id", "code">>,
              <<ForeignKey("var_id", "variables.csv", "id")>>)
\* ValueTable._component as the class body leaves it
ValueTable_component0 ==
    TableSpec("data.csv", "http://cldf.clld.org/v1.0/terms.rdf#ValueTable", <<"id">>,
              <<ForeignKey("soc_id", "societies.csv", "id")>>)

\* The rule tables.  Of a rule's keys only 'name', 'separator' and 'datatype'
\* are read by any code of this file; 'propertyUrl', 'required' and 'null' are
\* handed through to the writer untouched and are left out.
Plain == RuleMap(NoKey, NoSeparator, NoKey)
Typed(dt) == RuleMap(NoKey, NoSeparator, dt)

SocietyFieldNames ==
    <<"id", "xd_id", "pref_name_for_society", "glottocode",
      "ORIG_name_and_ID_in_this_dataset", "alt_names_by_society",
      "main_focal_year", "HRAF_name_ID", "HRAF_link", "origLat", "origLong",
      "Lat", "Long", "Comment">>
LanguageTable_convert ==
    [n \in {SocietyFieldNames[i] : i \in DOMAIN SocietyFieldNames} |->
        CASE n = "xd_id" -> Typed("string:xd")
          [] n = "alt_names_by_society" -> RuleMap(NoKey, Separator(COMMA_SP, TRUE), NoKey)
          [] n = "main_focal_year" -> Typed("integer")
          [] n = "HRAF_name_ID" -> Typed("string:hraf_name")
          [] n = "HRAF_link" -> Typed("string:hraf_link")
          [] n = "origLat" -> Typed("decimal:-90..90")
          [] n = "origLong" -> Typed("decimal:-190..180")
          [] n = "Lat" -> Typed("decimal:-90..90")
          [] n = "Long" -> Typed("decimal:-180..180")
          [] OTHER -> Plain]

RelatedSocietiesFieldNames == <<"id", "related">>
LangugageRelatedTable_convert ==
    [n \in {"id", "related"} |->
        IF n = "related" THEN RuleMap(NoKey, Separator(SEMI_SP, FALSE), NoKey) ELSE Plain]

VariableFieldNames ==
    <<"id", "category", "title", "definition", "type", "source", "notes", "codes">>
ParameterTable_convert ==
    [n \in {VariableFieldNames[i] : i \in DOMAIN VariableFieldNames} |->
        CASE n = "category" -> RuleMap(NoKey, Separator(COMMA_SP, FALSE), NoKey)
          [] n = "type" -> Typed("string:Categorical|Ordinal|Continuous")
          [] n = "codes" -> RuleNone
          [] OTHER -> Plain]

CodeFieldNames == <<"var_id", "code", "description", "name">>
CodeTable_convert ==
    [n \in {"var_id", "code", "description", "name"} |->
        IF n = "code" THEN RuleMap(n, NoSeparator, "string:code") ELSE RuleMap(n, NoSeparator, NoKey)]

DataFieldNames ==
    <<"soc_id", "sub_case", "year", "var_id", "code", "comment", "references">>
ValueTable_convert ==
    [n \in {DataFieldNames[i] : i \in DOMAIN DataFieldNames} |->
        CASE n = "year" -> Typed("string:year")
          [] n = "code" -> Typed(CodeTable_convert["code"].datatype)
          [] n = "references" -> RuleMap(NoKey, Separator(SEMI_SP, FALSE), NoKey)
          [] OTHER -> Plain]
ValueTable_extra == [name |-> "id", separator |-> NoSeparator, datatype |-> NoKey]

\* the registry, in the order of the @register decorations
CONVERTERS ==
    <<"LanguageTable", "LangugageRelatedTable", "ParameterTable", "CodeTable", "ValueTable">>

component(c) ==
    CASE c = "LanguageTable" -> LanguageTable_component
      [] c = "LangugageRelatedTable" -> LangugageRelatedTable_component
      [] c = "ParameterTable" -> ParameterTable_component
      [] c = "CodeTable" -> CodeTable_component
      [] c = "ValueTable" -> ValueTable_component0

source_fields(c) ==
    LET names == CASE c = "LanguageTable" -> SocietyFieldNames
                   [] c = "LangugageRelatedTable" -> RelatedSocietiesFieldNames
                   [] c = "ParameterTable" -> VariableFieldNames
                   [] c = "ValueTable" -> DataFieldNames
    IN  [i \in DOMAIN names |-> Field(names[i], FALSE)]

class_convert(c) ==
    CASE c = "LanguageTable" -> LanguageTable_convert
      [] c = "LangugageRelatedTable" -> LangugageRelatedTable_convert
      [] c = "ParameterTable" -> ParameterTable_convert
      [] c = "ValueTable" -> ValueTable_convert

\* Converter.__init__ as register runs it once per class at load
Converter_init(c) == itercols(source_fields(c), class_convert(c))

\* component.get('dc:conformsTo', component['url'])
table_id(comp) == IF comp.conformsTo # NoKey THEN comp.conformsTo ELSE comp.url

\* ----------------------------------------------------------------- datasets
\* the concatenation of a sequence of sequences
RECURSIVE chain(_)
chain(qs) == IF qs = <<>> THEN <<>> ELSE Head(qs) \o chain(Tail(qs))

\* cls._iterdata(dataset)
iterdata(c, dataset) ==
    CASE c = "LanguageTable" -> dataset.societies
      [] c = "LangugageRelatedTable" -> dataset.society_relations
      [] c = "ParameterTable" -> dataset.variables
      [] c = "CodeTable" -> chain([i \in DOMAIN dataset.variables |-> dataset.variables[i].codes])
      [] c = "ValueTable" -> dataset.data

BaseConverter_skip(dataset) == FALSE

\* faulty variant: the mixin's skip is shadowed by BaseConverter.skip
SkipMixin_skip_never(c, dataset) == FALSE

\* next(iter(cls._iterdata(dataset)), _sentinel) is _sentinel
SkipMixin_skip(c, dataset) == iterdata(c, dataset) = <<>>

\* c.skip(dataset) by the class's method resolution order
skip(c, dataset) ==
    IF c \in {"LanguageTable", "LangugageRelatedTable", "CodeTable"}
    THEN SkipMixin_skip(c, dataset)
    ELSE BaseConverter_skip(dataset)

\* Converter.__call__
Converter_call(c, dataset) ==
    LET built == Converter_init(c)
        data == iterdata(c, dataset)
    IN  [raised |-> FALSE,
         add_args |-> [component |-> component(c),
                       columns |-> [i \in DOMAIN built.cols |-> built.cols[i].args]],
         write_kwargs |-> table_id(component(c)) :>
              [i \in DOMAIN data |-> extract(built.cols, built.cell, data[i])]]

\* CodeTable.__call__: codes[0] of an empty list raises IndexError
CodeTable_call(dataset) ==
    LET codes == iterdata("CodeTable", dataset)
    IN  IF codes = <<>>
        THEN [raised |-> TRUE,
              add_args |-> [component |-> CodeTable_component, columns |-> <<>>],
              write_kwargs |-> <<>>]
        ELSE [raised |-> FALSE,
              add_args |-> [component |-> CodeTable_component,
                            columns |-> [i \in DOMAIN CodeFieldNames |->
                                LET r == CodeTable_convert[CodeFieldNames[i]]
                                IN  [name |-> r.name, separator |-> r.separator,
                                     datatype |-> r.datatype]]],
              write_kwargs |-> table_id(CodeTable_component) :> codes]

\* faulty variant: no copy is taken, the name still refers to the class-level dict
deepcopy_alias(ref) == ref

\* copy.deepcopy: the object the name refers to afterwards
deepcopy(ref) == "copy"

\* faulty variant: nothing is filtered out
reduced_nothing(fks) == fks

\* the foreign keys that do not reference LanguageTable._component['url']
reduced(fks) ==
    SelectSeq(fks, LAMBDA f : f.resource # LanguageTable_component.url)

\* faulty variant: enumerate's default start, 0
enumerate_from_zero(seq, start) == [k \in DOMAIN seq |-> <<k - 1, seq[k]>>]

\* enumerate(seq, start)
enumerate(seq, start) == [k \in DOMAIN seq |-> <<start + k - 1, seq[k]>>]

\* ValueTable.__call__.extract_add_id
extract_add_id(built, d, i) ==
    LET result == extract(built.cols, built.cell, d)
    IN  [t \in DOMAIN result \cup {"id"} |-> IF t = "id" THEN i ELSE result[t]]

\* ValueTable.__call__ with static, the class-level _component, as it is now.
\* static_after is that object after the call.
ValueTable_call(dataset, static) ==
    LET built == Converter_init("ValueTable")
        noSocieties == SkipMixin_skip("LanguageTable", dataset)
        ref == IF noSocieties THEN deepcopy("static") ELSE "static"
        edited == [static EXCEPT !.foreignKeys = reduced(static.foreignKeys)]
        comp == IF noSocieties THEN edited ELSE static
        pairs == enumerate(iterdata("ValueTable", dataset), 1)
    IN  [raised |-> FALSE,
         add_args |-> [component |-> comp,
                       columns |-> <<ValueTable_extra>> \o
                           [i \in DOMAIN built.cols |-> built.cols[i].args]],
         write_kwargs |-> table_id(static) :>
              [k \in DOMAIN pairs |-> extract_add_id(built, pairs[k][2], pairs[k][1])],
         static_after |-> IF noSocieties /\ ref = "static" THEN edited ELSE static]

\* c(source_ds)
call(c, dataset, static) ==
    IF c = "ValueTable" THEN ValueTable_call(dataset, static)
    ELSE LET r == IF c = "CodeTable" THEN CodeTable_call(dataset)
                  ELSE Converter_call(c, dataset)
         IN  [raised |-> r.raised, add_args |-> r.add_args,
              write_kwargs |-> r.write_kwargs, static_after |-> static]


\* ------------------------------------------------------ the driver: main()
SeqsUpTo(S, n) == UNION {[1..k -> S] : k \in 0..n}
NamesOf(q) == {q[i] : i \in DOMAIN q}

DatasetIds == <<"Binford", "EA", "MODIS", "WNAI">>

Society1 ==
    [n \in NamesOf(SocietyFieldNames) |->
        IF n = "alt_names_by_society" THEN a_COMMA_b ELSE <<n>>]
Relation1 ==
    [n \in NamesOf(RelatedSocietiesFieldNames) |-> IF n = "related" THEN a_SEMI_b ELSE <<n>>]
Code1 == [n \in NamesOf(CodeFieldNames) |-> <<n>>]
VariableWith(codes) ==
    [n \in NamesOf(VariableFieldNames) |-> IF n = "codes" THEN codes ELSE <<n>>]
Obs(soc, refs) ==
    [n \in NamesOf(DataFieldNames) |->
        IF n = "soc_id" THEN soc ELSE IF n = "references" THEN refs ELSE <<n>>]
Obs1 == Obs(<<"soc1">>, a_SEMI_b)
Obs2 == Obs(<<"soc2">>, <<"x">>)
\* observation files: the two sample observations in alternation, starting
\* with either
ObsFiles ==
    {[k \in 1..n |-> IF k % 2 = 1 THEN first[1] ELSE first[2]] :
        n \in 0..MaxObs, first \in {<<Obs1, Obs2>>, <<Obs2, Obs1>>}}

\* variable files: none, one variable without or with a code, or both
VariableFiles ==
    {<<>>, <<VariableWith(<<>>)>>, <<VariableWith(<<Code1>>)>>,
     <<VariableWith(<<>>), VariableWith(<<Code1>>)>>}

Datasets(id) ==
    [id : {id},
     societies : SeqsUpTo({Society1}, MaxRecords),
     society_relations : {<<>>, <<Relation1>>},
     variables : VariableFiles,
     data : ObsFiles]

NoDataset == [id |-> "", societies |-> <<>>, society_relations |-> <<>>,
              variables |-> <<>>, data |-> <<>>]
NoKwargs == [t \in {} |-> <<>>]
NoTargetDs == [dir |-> <<>>, tables |-> <<>>, written |-> NoKwargs,
               wrote |-> FALSE, validated |-> FALSE]

\* os.path.join(a, b) for a relative name b
join(path, name) == Append(path, name)

\* the driver's variables while only the builder is studied
MainIdle ==
    /\ pc = "idle"
    /\ ds_index = 0
    /\ source_ds = NoDataset
    /\ target_dir = <<TARGET>>
    /\ target_ds = NoTargetDs
    /\ write_kwargs = NoKwargs
    /\ ci = 0
    /\ log = <<>>
    /\ ValueTable_component = ValueTable_component0
    /\ fs = {}
    /\ pruned = FALSE

\* the builder's variables while main() runs
ColsIdle ==
    /\ fields = <<>>
    /\ convert = [n \in FieldNames |-> NotInConvert]
    /\ builtFrom = [n \in FieldNames |-> NotInConvert]
    /\ columns = <<>>
    /\ cell = <<>>
    /\ builds = 0
    /\ status = "idle"
    /\ record = NoRow
    /\ row = NoRow
    /\ firstColumns = <<>>
    /\ firstCell = <<>>

Init ==
    /\ ColsIdle
    /\ pc = "start"
    /\ ds_index = 0
    /\ source_ds = NoDataset
    /\ target_dir = <<TARGET>>
    /\ target_ds = NoTargetDs
    /\ write_kwargs = NoKwargs
    /\ ci = 0
    /\ log = <<>>
    /\ ValueTable_component = ValueTable_component0
    /\ fs \in {{}, {<<TARGET>>}}
    /\ pruned = FALSE

Event(op) == [op |-> op, ds |-> ds_index]

\* if not os.path.exists(target_dir): os.mkdir(target_dir); repo = Repos(source_dir)
MkTargetDir ==
    /\ pc = "start"
    /\ fs' = fs \cup {target_dir}
    /\ pc' = "for"
    /\ UNCHANGED <<ds_index, source_ds, target_dir, target_ds, write_kwargs, ci,
                   log, ValueTable_component, pruned>>
    /\ UNCHANGED colsVars

\* the head of `for source_ds in repo.datasets` with the body up to the inner
\* loop: print, join, in_dir (which creates the directory), write_kwargs = {}
NextDataset ==
    /\ pc = "for"
    /\ ds_index < MaxDatasets
    /\ \E ds \in Datasets(DatasetIds[ds_index + 1]) :
          /\ source_ds' = ds
          /\ target_dir' = join(target_dir, ds.id)
    /\ ds_index' = ds_index + 1
    /\ target_ds' = [NoTargetDs EXCEPT !.dir = target_dir']
    /\ fs' = fs \cup {target_dir'}
    /\ write_kwargs' = NoKwargs
    /\ ci' = 1
    /\ pc' = "converters"
    /\ UNCHANGED <<log, ValueTable_component, pruned>>
    /\ UNCHANGED colsVars

\* repo.datasets is exhausted: main returns
Exhausted ==
    /\ pc = "for"
    /\ pc' = "done"
    /\ UNCHANGED <<ds_index, source_ds, target_dir, target_ds, write_kwargs, ci,
                   log, ValueTable_component, fs, pruned>>
    /\ UNCHANGED colsVars

\* one pass of `for c in converters`; target_ds.add_component returns
RunConverter ==
    /\ pc = "converters"
    /\ ci <= Len(CONVERTERS)
    /\ LET c == CONVERTERS[ci]
       IN  IF skip(c, source_ds)
           THEN UNCHANGED <<target_ds, write_kwargs, log, ValueTable_component,
                            pruned, pc>>
           ELSE LET r == call(c, source_ds, ValueTable_component)
                IN  /\ ValueTable_component' = r.static_after
                    /\ pruned' = (pruned \/ (c = "ValueTable"
                                     /\ r.add_args.component # ValueTable_component))
                    /\ IF r.raised
                       THEN /\ pc' = "raised"
                            /\ log' = Append(log, Event("raise"))
                            /\ UNCHANGED <<target_ds, write_kwargs>>
                       ELSE /\ pc' = pc
                            /\ target_ds' = [target_ds EXCEPT
                                                !.tables = Append(@, r.add_args)]
                            /\ write_kwargs' = r.write_kwargs @@ write_kwargs
                            /\ log' = Append(log, Event("add_component"))
    /\ ci' = ci + 1
    /\ UNCHANGED <<ds_index, source_ds, target_dir, fs>>
    /\ UNCHANGED colsVars

\* target_ds.add_component raises (a schema-definition error)
AddComponentRaises ==
    /\ pc = "converters"
    /\ ci <= Len(CONVERTERS)
    /\ ~skip(CONVERTERS[ci], source_ds)
    /\ LET r == call(CONVERTERS[ci], source_ds, ValueTable_component)
       IN  /\ ~r.raised
           /\ ValueTable_component' = r.static_after
    /\ pc' = "raised"
    /\ log' = Append(log, Event("raise"))
    /\ UNCHANGED <<ds_index, source_ds, target_dir, target_ds, write_kwargs, ci,
                   fs, pruned>>
    /\ UNCHANGED colsVars

\* target_ds.write(**write_kwargs) returns, the row iterables consumed
Write ==
    /\ pc = "converters"
    /\ ci > Len(CONVERTERS)
    /\ target_ds' = [target_ds EXCEPT !.written = write_kwargs, !.wrote = TRUE]
    /\ log' = Append(log, Event("write"))
    /\ pc' = "validate"
    /\ UNCHANGED <<ds_index, source_ds, target_dir, write_kwargs, ci,
                   ValueTable_component, fs, pruned>>
    /\ UNCHANGED colsVars

WriteRaises ==
    /\ pc = "converters"
    /\ ci > Len(CONVERTERS)
    /\ pc' = "raised"
    /\ log' = Append(log, Event("raise"))
    /\ UNCHANGED <<ds_index, source_ds, target_dir, target_ds, write_kwargs, ci,
                   ValueTable_component, fs, pruned>>
    /\ UNCHANGED colsVars

\* target_ds.validate() returns
Validate ==
    /\ pc = "validate"
    /\ target_ds' = [target_ds EXCEPT !.validated = TRUE]
    /\ log' = Append(log, Event("validate"))
    /\ pc' = "for"
    /\ UNCHANGED <<ds_index, source_ds, target_dir, write_kwargs, ci,
                   ValueTable_component, fs, pruned>>
    /\ UNCHANGED colsVars

\* faulty variant: the error is swallowed and the loop goes on
ValidateRaises_swallowed ==
    /\ pc = "validate"
    /\ pc' = "for"
    /\ log' = Append(log, Event("raise"))
    /\ UNCHANGED <<ds_index, source_ds, target_dir, target_ds, write_kwargs, ci,
                   ValueTable_component, fs, pruned>>
    /\ UNCHANGED colsVars

\* target_ds.validate() raises; main has no handler, the caller gets the error
ValidateRaises ==
    /\ pc = "validate"
    /\ pc' = "raised"
    /\ log' = Append(log, Event("raise"))
    /\ UNCHANGED <<ds_index, source_ds, target_dir, target_ds, write_kwargs, ci,
                   ValueTable_component, fs, pruned>>
    /\ UNCHANGED colsVars

Next ==
    \/ MkTargetDir
    \/ NextDataset
    \/ Exhausted
    \/ RunConverter
    \/ AddComponentRaises
    \/ Write
    \/ WriteRaises
    \/ Validate
    \/ ValidateRaises

Spec == Init /\ [][Next]_vars

\* the builder alone: a field list and a rule table, the driver idle
InitBuilder == InitCols /\ MainIdle
SpecCols == InitBuilder /\ [][NextCols]_vars


\* ================================================================ properties
\* ---- helpers of the properties
HasSocietiesFK(comp) ==
    \E i \in DOMAIN comp.foreignKeys : comp.foreignKeys[i].resource = "societies.csv"

\* the schema arguments registered for the table with this url, if any
Registered(url) ==
    {target_ds.tables[i] : i \in {j \in DOMAIN target_ds.tables :
                                      target_ds.tables[j].component.url = url}}

DATA_ID == "http://cldf.clld.org/v1.0/terms.rdf#ValueTable"

\* C1: the rows ValueTable yields for N observations carry the ids 1..N in
\* iteration order: the k-th row has id k and holds the k-th observation.
C1_RowIds ==
    target_ds.wrote =>
        /\ DATA_ID \in DOMAIN target_ds.written
        /\ LET rows == target_ds.written[DATA_ID]
           IN  /\ Len(rows) = Len(source_ds.data)
               /\ \A k \in 1..Len(rows) :
                     /\ rows[k]["id"] = k
                     /\ rows[k]["soc_id"] = source_ds.data[k]["soc_id"]
                     /\ rows[k]["references"] = source_ds.data[k]["references"]

\* two observations were written, with different and with equal field values
C1_Witness ==
    /\ target_ds.wrote
    /\ Len(source_ds.data) >= 2
    /\ source_ds.data[1] # source_ds.data[2]
    /\ target_ds.written[DATA_ID][2]["id"] = 2

\* C2: the TableSpec ValueTable hands to add_component references
\* societies.csv iff the dataset has a society, i.e. iff LanguageTable.skip
\* is false.
C2_SocietiesForeignKey ==
    \A t \in Registered("data.csv") :
        /\ HasSocietiesFK(t.component) <=> (Len(source_ds.societies) >= 1)
        /\ HasSocietiesFK(t.component) <=> ~skip("LanguageTable", source_ds)

C2_Witness ==
    \E t \in Registered("data.csv") :
        /\ source_ds.societies = <<>>
        /\ t.component.foreignKeys = <<>>

\* C3: the class-level ValueTable._component is never changed: it keeps its
\* foreign key to societies.csv, and a dataset with societies gets that key
\* also after a dataset without societies was processed.
C3_StaticComponentKept ==
    /\ ValueTable_component = ValueTable_component0
    /\ HasSocietiesFK(ValueTable_component)
    /\ \A t \in Registered("data.csv") :
          (pruned /\ source_ds.societies # <<>>) => HasSocietiesFK(t.component)

C3_Witness ==
    /\ pruned
    /\ source_ds.societies # <<>>
    /\ \E t \in Registered("data.csv") : HasSocietiesFK(t.component)

Skippable == {"LanguageTable", "LangugageRelatedTable", "CodeTable"}

\* C4: for a converter without records in the dataset: a skippable one
\* answers skip = true, is not registered and is not in the write set; the
\* others answer false, are registered and are written with no rows.
C4_EmptyTables ==
    target_ds.wrote =>
        \A i \in DOMAIN CONVERTERS :
            LET c == CONVERTERS[i]
                tid == table_id(component(c))
            IN  iterdata(c, source_ds) = <<>> =>
                    IF c \in Skippable
                    THEN /\ skip(c, source_ds)
                         /\ Registered(component(c).url) = {}
                         /\ tid \notin DOMAIN target_ds.written
                    ELSE /\ ~skip(c, source_ds)
                         /\ Registered(component(c).url) # {}
                         /\ tid \in DOMAIN target_ds.written
                         /\ target_ds.written[tid] = <<>>

\* a dataset with no record of any kind was written
C4_Witness ==
    /\ target_ds.wrote
    /\ \A i \in DOMAIN CONVERTERS : iterdata(CONVERTERS[i], source_ds) = <<>>
    /\ Len(target_ds.tables) = 2

\* C6: every dataset is written into <target root>/<dataset id>.
C6_TargetSubdir ==
    ds_index >= 1 => target_ds.dir = <<TARGET, source_ds.id>>

\* ---- C7
EventsOf(d) == SelectSeq(log, LAMBDA e : e.ds = d)
Count(q, op) == Cardinality({i \in DOMAIN q : q[i].op = op})
\* adds, then at most one write, then at most one validate
WellOrdered(q) ==
    /\ Count(q, "write") <= 1
    /\ Count(q, "validate") <= 1
    /\ \A i, j \in DOMAIN q :
          i < j => /\ ~(q[i].op = "write" /\ q[j].op = "add_component")
                   /\ ~(q[i].op = "validate" /\ q[j].op \in {"add_component", "write"})
    /\ Count(q, "validate") = 1 => Count(q, "write") = 1
\* the urls of the converters among the first n that do not skip, in registry order
Due(n) ==
    LET firsts == SubSeq(CONVERTERS, 1, n)
        run == SelectSeq(firsts, LAMBDA c : ~skip(c, source_ds))
    IN  [i \in DOMAIN run |-> component(run[i]).url]

\* C7: per dataset the calls are: one add_component per non-skipped
\* converter in registry order, then one write with all accumulated rows,
\* then one validate; a dataset starts only after the one before it was
\* validated; after a raise no further call is made.
C7_CallOrder ==
    /\ \A i, j \in DOMAIN log : i < j => log[i].ds <= log[j].ds
    /\ \A i \in DOMAIN log : log[i].op = "raise" => (i = Len(log) /\ pc = "raised")
    /\ pc = "raised" => (log # <<>> /\ log[Len(log)].op = "raise")
    /\ \A d \in 1..ds_index :
          /\ WellOrdered(EventsOf(d))
          /\ d < ds_index =>
                LET q == EventsOf(d) IN q # <<>> /\ q[Len(q)].op = "validate"
    /\ ds_index >= 1 =>
          LET q == EventsOf(ds_index)
              visited == IF ci > Len(CONVERTERS) THEN Len(CONVERTERS) ELSE ci - 1
          IN  /\ [i \in DOMAIN target_ds.tables |-> target_ds.tables[i].component.url]
                    = Due(visited)
              /\ Count(q, "add_component") = Len(target_ds.tables)
              /\ (Count(q, "write") = 1) <=> target_ds.wrote
              /\ (Count(q, "validate") = 1) <=> target_ds.validated
              /\ target_ds.wrote =>
                    /\ visited = Len(CONVERTERS)
                    /\ target_ds.written = write_kwargs
                    /\ DOMAIN target_ds.written =
                          {table_id(target_ds.tables[i].component) :
                              i \in DOMAIN target_ds.tables}

\* the second dataset was validated, some of its converters having skipped
C7_Witness ==
    /\ ds_index >= 2
    /\ target_ds.validated
    /\ Len(target_ds.tables) < Len(CONVERTERS)
    /\ Len(log) > Len(target_ds.tables) + 2

\* ---- the column-spec builder
\* every 'separator' of the table is a Separator descriptor (or absent)
ValidTable(tbl) == \A n \in DOMAIN tbl : tbl[n].separator.kind # "str"

Built == builds >= 1 /\ ValidTable(builtFrom)
Extracted == Built /\ record # NoRow

A_d_B(d) == <<"a">> \o d \o <<"b">>

\* C5: a field whose rule has Separator(d, split) extracts
\* "a" + d + "b" to ["a", "b"] when split is true and to the input when it
\* is false, and its column metadata holds the bare delimiter d.
C5_SeparatorField ==
    Built =>
        \A i \in DOMAIN columns :
            LET rule == builtFrom[columns[i].name]
                d == rule.separator.sep
            IN  rule.separator.kind = "Separator" =>
                    /\ trans(columns[i], cell, A_d_B(d)) =
                          (IF rule.separator.split THEN <<<<"a">>, <<"b">>>> ELSE A_d_B(d))
                    /\ columns[i].args.separator = SepString(d)

\* C8: one column per field whose rule is not None, in field order; the
\* target name is the field name (no rule), the string (string rule) or the
\* 'name' entry defaulting to the field name (mapping rule); a column without
\* explicit datatype gets 'float' for a float field and 'string' otherwise;
\* extract maps each target name to the transform of the record's field.
C8_ColumnSpecs ==
    Built =>
        LET kept == SelectSeq(fields, LAMBDA f : builtFrom[f.name].kind # "None")
        IN  /\ Len(columns) = Len(kept)
            /\ \A i \in DOMAIN kept :
                  LET f == kept[i]
                      rule == builtFrom[f.name]
                      col == columns[i]
                  IN  /\ col.name = f.name
                      /\ col.target =
                            (IF rule.kind = "str" THEN rule.name
                             ELSE IF rule.kind = "map" /\ rule.name # NoKey THEN rule.name
                             ELSE f.name)
                      /\ col.args.name = col.target
                      /\ col.args.datatype =
                            (IF rule.kind = "map" /\ rule.datatype # NoKey THEN rule.datatype
                             ELSE IF f.convert = "float" THEN "float" ELSE "string")
            /\ record # NoRow =>
                  /\ DOMAIN row = Targets(columns)
                  /\ Cardinality(DOMAIN row) = Len(kept)
                  /\ \A i \in DOMAIN columns :
                        row[columns[i].target] =
                            trans(columns[i], cell, record[columns[i].name])

\* a record was extracted with a dropped field and an inferred float column
C8_Witness ==
    /\ Extracted
    /\ \E i \in DOMAIN fields : builtFrom[fields[i].name].kind = "None"
    /\ \E i \in DOMAIN columns : columns[i].args.datatype = "float"
    /\ Len(fields) >= 2

\* C9: a field with Separator(d, split=true) is split at
\* extraction on its own delimiter d, whatever the other fields' rules are.
C9_OwnDelimiter ==
    Extracted =>
        \A i \in DOMAIN columns :
            LET rule == builtFrom[columns[i].name]
            IN  (rule.separator.kind = "Separator" /\ rule.separator.split) =>
                    row[columns[i].target] =
                        split(record[columns[i].name], rule.separator.sep)

\* C10: constructing the converter again over the same field
\* list and class-level rule table gives the same columns and transforms.
C10_Repeatable ==
    builds >= 2 =>
        /\ status = "ok"
        /\ columns = firstColumns
        /\ \A i \in DOMAIN columns : \A v \in Values :
              trans(columns[i], cell, v) = trans(firstColumns[i], firstCell, v)

====
